---- MODULE Spec2Model ----
(***************************************************************************)
(* A model of imap_migrator.py: the CSV loader, the lister, the backup     *)
(* runner, the restore runner and main.                                    *)
(*                                                                         *)
(* Python strings are sequences of one-character strings, so that          *)
(* str.replace, str.lower, str.endswith, slicing and shlex.split are       *)
(* computed character by character.  Python's None is the value NoneVal.   *)
(***************************************************************************)
EXTENDS Integers, Sequences, FiniteSets, TLC

VARIABLES
    pc,          \* position of the run: "start", an operation name, "done", "exit"
    args,        \* the parsed command line (argparse namespace)
    csvRows,     \* the rows csv.DictReader yields for the input file
    migrations,  \* the list parse_mailboxes_csv returned
    fsDirs,      \* directories that exist (absolute paths)
    fsFiles,     \* regular files that exist (absolute paths)
    i,           \* index of the pair the running operation is at
    walk,        \* restore: the files os.walk still has to yield for pair i
    allOk,       \* restore: return_codes_all_ok of pair i
    acc,         \* the local list "success" of the running operation
    success,     \* main's variable "success"
    calls,       \* the external invocations of the running operation
    pairLog,     \* restore: what happened to each pair handled so far
    opsRun,      \* the operations main has started, in order
    exitStatus,  \* the process exit status, -1 while running
    mbox,        \* command-line construction: the mailbox at hand
    logged       \* command-line construction: the lists given to logger.debug

vars == <<pc, args, csvRows, migrations, fsDirs, fsFiles, i, walk,
          allOk, acc, success, calls, pairLog, opsRun, exitStatus, mbox, logged>>

----------------------------------------------------------------------------
(* Bounds of the model. *)

\* longest list of migration pairs a run handles
MaxRows == 2
\* longest CSV input given to the loader alone
MaxCsvRows == 2
\* longest password tried in the command-line construction
MaxPwLen == 4

----------------------------------------------------------------------------
(* Strings. *)

NoneVal == <<"<None>">>

EmptyStr == <<>>

S_all == <<"a","l","l">>
S_alice == <<"a","l","i","c","e">>
S_bob_at_x == <<"b","@","x">>
S_carl == <<"c">>
S_pw1 == <<"p","w","1">>
S_pw2 == <<"p","w","2">>
S_oldhost == <<"i","m","a","p",".","o","l","d",".","e","x","a","m","p","l","e">>
S_newhost == <<"i","m","a","p",".","n","e","w",".","e","x","a","m","p","l","e">>
S_true == <<"t","r","u","e">>
S_false == <<"f","a","l","s","e">>
S_FALSE == <<"F","A","L","S","E">>
S_False == <<"F","a","l","s","e">>
S_fals == <<"f","a","l","s">>
S_falsesp == <<"f","a","l","s","e"," ">>
S_no == <<"n","o">>
S_993 == <<"9","9","3">>
S_143 == <<"1","4","3">>
S_2525 == <<"2","5","2","5">>
S_0 == <<"0">>
S_INBOX == <<"I","N","B","O","X">>
S_INBOX_mbox == <<"I","N","B","O","X",".","m","b","o","x">>
S_Sent_mbox == <<"S","e","n","t",".","m","b","o","x">>
S_mbox == <<"m","b","o","x">>
S_alice_at_ == <<"a","l","i","c","e","_","a","t","_">>
S_INBOX_Sent == <<"I","N","B","O","X","/","S","e","n","t">>
S_backups == <<"b","a","c","k","u","p","s">>
S_cwd == <<"w">>

UpperChars == <<"A","B","C","D","E","F","G","H","I","J","K","L","M",
                "N","O","P","Q","R","S","T","U","V","W","X","Y","Z">>
LowerChars == <<"a","b","c","d","e","f","g","h","i","j","k","l","m",
                "n","o","p","q","r","s","t","u","v","w","x","y","z">>

\* str.lower() of one character
LowerChar(c) ==
    IF \E k \in 1..Len(UpperChars) : UpperChars[k] = c
    THEN LowerChars[CHOOSE k \in 1..Len(UpperChars) : UpperChars[k] = c]
    ELSE c

\* s.lower()
Lower(s) == [k \in 1..Len(s) |-> LowerChar(s[k])]

\* s.endswith(suf)
EndsWith(s, suf) ==
    /\ Len(s) >= Len(suf)
    /\ SubSeq(s, Len(s) - Len(suf) + 1, Len(s)) = suf

\* s[:-n] for n > 0
DropLast(s, n) == IF Len(s) <= n THEN <<>> ELSE SubSeq(s, 1, Len(s) - n)

RECURSIVE ReplaceAt(_)
\* s.replace("@", "_at_")
ReplaceAt(s) ==
    IF s = <<>> THEN <<>>
    ELSE (IF Head(s) = "@" THEN <<"_","a","t","_">> ELSE <<Head(s)>>)
         \o ReplaceAt(Tail(s))

\* Python truthiness of an optional string: None and "" are false
Truthy(s) == s # NoneVal /\ s # EmptyStr

\* x in lst, for a list
InList(x, lst) == \E k \in 1..Len(lst) : lst[k] = x

----------------------------------------------------------------------------
(* The data model: Mailbox and Migration. *)

\* Mailbox.__init__
Mailbox(type_, username, password, host, port, use_ssl) ==
    [type |-> type_, username |-> username, password |-> password,
     host |-> host, port |-> port, use_ssl |-> use_ssl]

\* Migration.__init__
Migration(old_mailbox, new_mailbox) == [old |-> old_mailbox, new |-> new_mailbox]

\* getattr(migration, type_)
GetAttr(migration, type_) == IF type_ = "old" THEN migration.old ELSE migration.new

----------------------------------------------------------------------------
(* parse_mailboxes_csv. *)

\* One row of csv.DictReader: the ten named fields, None for a missing one.
Row(ou, op, oh, oport, ossl, nu, np, nh, nport, nssl) ==
    [old_username |-> ou, old_pass |-> op, old_host |-> oh, old_port |-> oport,
     old_ssl |-> ossl, new_username |-> nu, new_pass |-> np, new_host |-> nh,
     new_port |-> nport, new_ssl |-> nssl]

\* SslFlag with a fault: the comparison without lower().
SslFlagNoLower(v) == ~(v # NoneVal /\ v = S_false)

\* "Translate use_ssl string to bool"
SslFlag(v) == ~(v # NoneVal /\ Lower(v) = S_false)

\* "Default ports"
DefaultPort(port, ssl) ==
    IF ~Truthy(port) THEN (IF ssl THEN S_993 ELSE S_143) ELSE port

\* Retained with a fault: "all" anywhere in the filter retains every row.
RetainedAnyAll(username, mailboxes_filter) ==
    InList(S_all, mailboxes_filter) \/ InList(username, mailboxes_filter)

\* the condition under which a row's migration is appended
Retained(username, mailboxes_filter) ==
    mailboxes_filter = <<S_all>> \/ InList(username, mailboxes_filter)

\* the migration the loop body builds from one row
ParseRow(row) ==
    LET old_ssl == SslFlag(row.old_ssl)
        new_ssl == SslFlag(row.new_ssl)
    IN  Migration(
          Mailbox("old", row.old_username, row.old_pass, row.old_host,
                  DefaultPort(row.old_port, old_ssl), old_ssl),
          Mailbox("new", row.new_username, row.new_pass, row.new_host,
                  DefaultPort(row.new_port, new_ssl), new_ssl))

RECURSIVE ParseRows(_, _)
\* the loop over the rows: the list "migrations"
ParseRows(rows, mailboxes_filter) ==
    IF rows = <<>> THEN <<>>
    ELSE LET m == ParseRow(Head(rows))
         IN  (IF Retained(m.old.username, mailboxes_filter) THEN <<m>> ELSE <<>>)
             \o ParseRows(Tail(rows), mailboxes_filter)

\* all sequences over S of length at most n
SeqsUpTo(S, n) == UNION {[1..k -> S] : k \in 0..n}

----------------------------------------------------------------------------
(* Inputs of the loader when it is checked alone. *)

\* (port field, flag field) of one side of a row
SideVariants ==
    { <<EmptyStr, S_true>>, <<EmptyStr, S_false>>, <<EmptyStr, S_FALSE>>,
      <<EmptyStr, S_False>>, <<EmptyStr, S_fals>>, <<EmptyStr, S_falsesp>>,
      <<EmptyStr, S_no>>, <<EmptyStr, EmptyStr>>,
      <<S_2525, S_true>>, <<S_2525, S_False>>, <<S_143, EmptyStr>>,
      <<S_993, S_false>>, <<S_0, S_true>> }

FullRow(u, o, n) ==
    Row(u, S_pw1, S_oldhost, o[1], o[2], u, S_pw2, S_newhost, n[1], n[2])

\* rows shorter than ten fields: the missing fields are None
ShortRows ==
    { Row(S_alice, NoneVal, NoneVal, NoneVal, NoneVal,
          NoneVal, NoneVal, NoneVal, NoneVal, NoneVal),
      Row(EmptyStr, NoneVal, NoneVal, NoneVal, NoneVal,
          NoneVal, NoneVal, NoneVal, NoneVal, NoneVal),
      Row(S_bob_at_x, S_pw1, S_oldhost, S_2525, NoneVal,
          NoneVal, NoneVal, NoneVal, NoneVal, NoneVal),
      Row(S_all, S_pw1, S_oldhost, EmptyStr, S_FALSE,
          S_all, S_pw2, S_newhost, NoneVal, NoneVal) }

CsvRowSet ==
    { FullRow(S_alice, o, <<EmptyStr, S_true>>) : o \in SideVariants }
    \cup { FullRow(S_bob_at_x, <<EmptyStr, S_FALSE>>, n) : n \in SideVariants }
    \cup ShortRows

FilterSet ==
    { <<S_all>>, <<S_alice>>, <<S_bob_at_x, S_alice>>, <<S_all, S_alice>>,
      <<S_carl>> }

\* the argparse namespace; csv is the state of the input file
Args(csv, listold, listnew, backup, restore, mailboxes) ==
    [csv |-> csv, listold |-> listold, listnew |-> listnew, backup |-> backup,
     restore |-> restore, output |-> <<S_backups>>, mailboxes |-> mailboxes]

NoMailbox == Mailbox("old", EmptyStr, EmptyStr, EmptyStr, EmptyStr, FALSE)

\* the variables a specification does not use
IdleRun ==
    /\ fsDirs = {} /\ fsFiles = {} /\ i = 0 /\ walk = <<>>
    /\ allOk = TRUE /\ acc = <<>> /\ success = <<>> /\ calls = <<>>
    /\ pairLog = <<>> /\ opsRun = <<>> /\ exitStatus = -1
IdleCmd == mbox = NoMailbox /\ logged = <<>>

CsvInit ==
    /\ pc = "csv"
    /\ csvRows \in SeqsUpTo(CsvRowSet, MaxCsvRows)
    /\ \E f \in FilterSet : args = Args("ok", FALSE, FALSE, FALSE, FALSE, f)
    /\ migrations = <<>>
    /\ IdleRun /\ IdleCmd

\* parse_mailboxes_csv on a readable file
CsvParse ==
    /\ pc = "csv"
    /\ migrations' = ParseRows(csvRows, args.mailboxes)
    /\ pc' = "parsed"
    /\ UNCHANGED <<args, csvRows, fsDirs, fsFiles, i, walk, allOk, acc,
                   success, calls, pairLog, opsRun, exitStatus, mbox, logged>>

CsvNext == CsvParse

SpecCsv == CsvInit /\ [][CsvNext]_vars

----------------------------------------------------------------------------
(* Paths. A path is a sequence of components; the file system holds       *)
(* absolute paths, and a relative path is resolved against Cwd.           *)

Cwd == <<S_cwd>>

\* os.path.join(path, name) for a name without separators; joining ""
\* adds no component
PathJoin(path, name) == IF name = EmptyStr THEN path ELSE Append(path, name)

\* os.path.abspath of a relative path
AbsPath(path) == Cwd \o path

RECURSIVE JoinSlash(_)
\* the text of a relative path: its components joined by "/"
JoinSlash(path) ==
    IF path = <<>> THEN <<>>
    ELSE IF Len(path) = 1 THEN path[1]
    ELSE path[1] \o <<"/">> \o JoinSlash(Tail(path))

\* the text of an absolute path
AbsText(path) == <<"/">> \o JoinSlash(path)

\* os.path.relpath(path, start) where start is a prefix of path
RelPath(path, start) == SubSeq(path, Len(start) + 1, Len(path))

----------------------------------------------------------------------------
(* Command lines. A command line is formatted from a template and the     *)
(* mailbox's fields and then split by shlex.split. Every character        *)
(* carries the mark pw: whether it was formatted from the password.       *)

T_list_1 == <<"i","m","a","p","b","a","c","k","u","p","/","i","m","a","p","g","r","a","b",".","p","y"," ","-","l"," ","-","s"," ">>
T_list_2 == <<" ","-","u"," ","\"">>
T_list_3 == <<"\""," ","-","p"," ","\"">>
T_quote == <<"\"">>
T_backup_1 == <<"i","m","a","p","b","a","c","k","u","p","/","i","m","a","p","g","r","a","b",".","p","y"," ","-","v"," ","-","d"," ">>
T_backup_2 == <<" ","-","f"," ","\"">>
T_backup_3 == <<"\""," ","-","s"," ","\"">>
T_backup_4 == <<"\""," ","-","u"," ","\"">>
T_backup_5 == <<"\""," ","-","p"," ","\"">>
T_backup_6 == <<"\""," ","-","m"," ","\"","_","A","L","L","_","\"">>
T_upload_1 == <<"i","m","a","p","_","u","p","l","o","a","d","/","i","m","a","p","_","u","p","l","o","a","d",".","p","y"," ","-","-","r","e","t","r","y"," ","3"," ">>
T_upload_2 == <<" ","-","-","h","o","s","t"," ","\"">>
T_upload_3 == <<"\""," ","-","-","p","o","r","t"," ">>
T_upload_4 == <<" ","-","-","u","s","e","r"," ","\"">>
T_upload_5 == <<"\""," ","-","-","p","a","s","s","w","o","r","d"," ","\"">>
T_upload_6 == <<"\""," ","-","-","b","o","x"," ","\"">>
T_upload_7 == <<"\""," ","\"">>
S_dashS == <<"-","S">>
S_ssl == <<"-","-","s","s","l">>
S_mask == <<"*","*","*","*","*","*">>
S_dot_mbox == <<".","m","b","o","x">>

Lit(s) == [k \in 1..Len(s) |-> [ch |-> s[k], pw |-> FALSE]]
Secret(s) == [k \in 1..Len(s) |-> [ch |-> s[k], pw |-> TRUE]]

ShlexWhitespace == {" "}
ShlexQuotes == {"\"", "'"}
ShlexEscape == "\\"
ShlexEscapedQuotes == {"\""}

\* The lexer's state: st is its state (" ", "a", a quote or the escape
\* character), esc its escapedstate, bs the escape character read last,
\* tok the token read so far, quoted whether the token had a quoted part,
\* out the tokens read.
ShlexStart ==
    [st |-> " ", esc |-> "a", bs |-> [ch |-> ShlexEscape, pw |-> FALSE],
     tok |-> <<>>, quoted |-> FALSE, out |-> <<>>]

\* shlex.read_token (posix, whitespace_split) on one more character
ShlexChar(x, cell) ==
    LET c == cell.ch IN
    IF x.st = " " THEN
         IF c \in ShlexWhitespace THEN x
         ELSE IF c = ShlexEscape
         THEN [x EXCEPT !.st = ShlexEscape, !.esc = "a", !.bs = cell]
         ELSE IF c \in ShlexQuotes THEN [x EXCEPT !.st = c]
         ELSE [x EXCEPT !.st = "a", !.tok = <<cell>>]
    ELSE IF x.st \in ShlexQuotes THEN
         IF c = x.st THEN [x EXCEPT !.st = "a", !.quoted = TRUE]
         ELSE IF c = ShlexEscape /\ x.st \in ShlexEscapedQuotes
         THEN [x EXCEPT !.st = ShlexEscape, !.esc = x.st, !.bs = cell,
                        !.quoted = TRUE]
         ELSE [x EXCEPT !.tok = Append(x.tok, cell), !.quoted = TRUE]
    ELSE IF x.st = ShlexEscape THEN
         LET kept == IF x.esc \in ShlexQuotes /\ c # ShlexEscape /\ c # x.esc
                     THEN Append(x.tok, x.bs) ELSE x.tok
         IN  [x EXCEPT !.st = x.esc, !.tok = Append(kept, cell)]
    ELSE \* x.st = "a"
         IF c \in ShlexWhitespace
         THEN IF x.tok # <<>> \/ x.quoted
              THEN [x EXCEPT !.st = " ", !.tok = <<>>, !.quoted = FALSE,
                             !.out = Append(x.out, x.tok)]
              ELSE [x EXCEPT !.st = " "]
         ELSE IF c \in ShlexQuotes THEN [x EXCEPT !.st = c]
         ELSE IF c = ShlexEscape
         THEN [x EXCEPT !.st = ShlexEscape, !.esc = "a", !.bs = cell]
         ELSE [x EXCEPT !.tok = Append(x.tok, cell)]

RECURSIVE ShlexRun(_, _, _, _)
\* the lexer run over s[lo..hi] from state x
ShlexRun(s, lo, hi, x) ==
    IF lo > hi THEN x
    ELSE IF lo = hi THEN ShlexChar(x, s[lo])
    ELSE LET mid == (lo + hi) \div 2
             left == ShlexRun(s, lo, mid, x)
         IN  \* the test makes TLC evaluate left before it runs the right half
             \* (st is never ""); without it the evaluation nests too deep
             IF left.st = "" THEN left ELSE ShlexRun(s, mid + 1, hi, left)

\* shlex.split(s): [err, toks], err standing for ValueError ("No closing
\* quotation", "No escaped character") at the end of the input
ShlexSplit(s) ==
    LET x == ShlexRun(s, 1, Len(s), ShlexStart)
    IN  IF x.st \in ShlexQuotes \/ x.st = ShlexEscape
        THEN [err |-> TRUE, toks |-> x.out]
        ELSE [err |-> FALSE,
              toks |-> IF x.st = "a" /\ (x.tok # <<>> \/ x.quoted)
                       THEN Append(x.out, x.tok) ELSE x.out]

\* the command line of list_mailboxes, before the split
ListCommand(mailbox) ==
    Lit(T_list_1) \o Lit(mailbox.host) \o Lit(T_list_2) \o Lit(mailbox.username)
    \o Lit(T_list_3) \o Secret(mailbox.password) \o Lit(T_quote)

\* what list_mailboxes gives logger.debug: cmdl[:-1] + ["******"]
ListLogged(cmdl) == Append(SubSeq(cmdl, 1, Len(cmdl) - 1), Lit(S_mask))

\* the command line of backup_mailboxes, before the split
BackupCommand(mailbox, user_output_dir) ==
    Lit(T_backup_1) \o Lit(IF mailbox.use_ssl THEN S_dashS ELSE EmptyStr)
    \o Lit(T_backup_2) \o Lit(user_output_dir) \o Lit(T_backup_3)
    \o Lit(mailbox.host) \o Lit(T_backup_4) \o Lit(mailbox.username)
    \o Lit(T_backup_5) \o Secret(mailbox.password) \o Lit(T_backup_6)

\* cmdl with cmdl[-n] replaced by the mask
MaskFromEnd(cmdl, n) == [cmdl EXCEPT ![Len(cmdl) - n + 1] = Lit(S_mask)]

\* what backup_mailboxes gives logger.debug
BackupLogged(cmdl) == MaskFromEnd(cmdl, 3)

\* the command line of restore_mailboxes, before the split
UploadCommand(mailbox, box_path, mbox_file) ==
    Lit(T_upload_1) \o Lit(IF mailbox.use_ssl THEN S_ssl ELSE EmptyStr)
    \o Lit(T_upload_2) \o Lit(mailbox.host) \o Lit(T_upload_3)
    \o Lit(mailbox.port) \o Lit(T_upload_4) \o Lit(mailbox.username)
    \o Lit(T_upload_5) \o Secret(mailbox.password) \o Lit(T_upload_6)
    \o Lit(box_path) \o Lit(T_upload_7) \o Lit(mbox_file) \o Lit(T_quote)

\* what restore_mailboxes gives logger.debug
UploadLogged(cmdl) == MaskFromEnd(cmdl, 4)

\* the text of a token, without the marks
Text(tok) == [k \in 1..Len(tok) |-> tok[k].ch]

----------------------------------------------------------------------------
(* Command-line construction checked alone: one mailbox, one backed-up    *)
(* file, each of the three operations building and logging its command.   *)

PwAlphabet == {"a", " ", "\"", "\\"}

\* backup_mailboxes: user_output_dir
BackupUserDir(output_dir, username) ==
    AbsPath(PathJoin(output_dir, ReplaceAt(username)))

\* RestoreUserDir with a fault: the username taken as it is.
RestoreUserDirUnmapped(backup_dir, username) == PathJoin(backup_dir, username)

\* restore_mailboxes: user_backup_dir
RestoreUserDir(backup_dir, username) == PathJoin(backup_dir, ReplaceAt(username))

\* BoxImapPath with a fault: the suffix is kept.
BoxImapPathWithSuffix(box_file_relpath, user_backup_dir) ==
    JoinSlash(RelPath(box_file_relpath, user_backup_dir))

\* restore_mailboxes: box_imap_path
BoxImapPath(box_file_relpath, user_backup_dir) ==
    DropLast(JoinSlash(RelPath(box_file_relpath, user_backup_dir)), 5)

CmdFiles == { <<S_INBOX_mbox>>, <<S_INBOX, S_Sent_mbox>> }

CmdInit ==
    /\ pc = "cmd"
    /\ \E pw \in SeqsUpTo(PwAlphabet, MaxPwLen), u \in {S_alice, S_bob_at_x},
          ssl \in BOOLEAN, f \in CmdFiles :
          mbox = [m |-> Mailbox("new", u, pw, S_newhost, S_993, ssl), file |-> f]
    /\ logged = <<>>
    /\ args = Args("ok", FALSE, FALSE, FALSE, FALSE, <<S_all>>)
    /\ csvRows = <<>> /\ migrations = <<>>
    /\ IdleRun

\* what one command does to the log and to the run: a ValueError of
\* shlex.split is not caught and ends the process before anything is logged
CmdEffect(split, shown) ==
    /\ IF split.err
       THEN /\ pc' = "exit" /\ exitStatus' = 1 /\ UNCHANGED <<logged, calls>>
       ELSE /\ pc' = "cmd_done"
            /\ logged' = Append(logged, shown)
            /\ calls' = Append(calls, split.toks)
            /\ UNCHANGED exitStatus
    /\ UNCHANGED <<args, csvRows, migrations, fsDirs, fsFiles, i, walk, allOk,
                   acc, success, pairLog, opsRun, mbox>>

\* list_mailboxes: the command and its debug line
CmdList ==
    /\ pc = "cmd"
    /\ LET split == ShlexSplit(ListCommand(mbox.m))
       IN  CmdEffect(split, ListLogged(split.toks))

\* backup_mailboxes: the command and its debug line
CmdBackup ==
    /\ pc = "cmd"
    /\ LET dir == AbsText(BackupUserDir(args.output, mbox.m.username))
           split == ShlexSplit(BackupCommand(mbox.m, dir))
       IN  CmdEffect(split, BackupLogged(split.toks))

\* restore_mailboxes: the command and its debug line
CmdRestore ==
    /\ pc = "cmd"
    /\ LET user_backup_dir == RestoreUserDir(args.output, mbox.m.username)
           box_file_relpath == user_backup_dir \o mbox.file
           box_file_abspath == AbsText(AbsPath(box_file_relpath))
           box_imap_path == BoxImapPath(box_file_relpath, user_backup_dir)
           split == ShlexSplit(UploadCommand(mbox.m, box_imap_path, box_file_abspath))
       IN  CmdEffect(split, UploadLogged(split.toks))

CmdNext == CmdList \/ CmdBackup \/ CmdRestore

SpecCmd == CmdInit /\ [][CmdNext]_vars

\* C4: no argument of a logged command line holds a character that was
\* formatted from the mailbox's password.
C4_NoPasswordInLog ==
    \A n \in 1..Len(logged) : \A t \in 1..Len(logged[n]) :
        \A k \in 1..Len(logged[n][t]) : ~logged[n][t][k].pw

----------------------------------------------------------------------------
(* The file system and the external programs. *)

S_b_at_x == <<"b","_","a","t","_","x">>

\* does the path exist (os.path.exists); a relative path is resolved
Exists(path) == AbsPath(path) \in fsDirs \cup fsFiles

\* every name a directory entry can have, in the order of a listing
NameOrder ==
    <<S_INBOX_mbox, S_INBOX, S_Sent_mbox, S_mbox, S_alice, S_alice_at_,
      S_b_at_x, S_carl, S_backups>>

Reverse(s) == [k \in 1..Len(s) |-> s[Len(s) + 1 - k]]

\* the entries of directory dir (an absolute path) of the given kind,
\* in listing order
Entries(dir, kind, rev) ==
    SelectSeq(IF rev THEN Reverse(NameOrder) ELSE NameOrder,
              LAMBDA n : Append(dir, n) \in kind)

RECURSIVE WalkFiles(_, _)
RECURSIVE WalkDirs(_, _, _)
\* os.walk(top), top-down: the (root, filename) of every file it yields,
\* for one listing order
WalkFiles(top, rev) ==
    LET files == Entries(AbsPath(top), fsFiles, rev)
        dirs == Entries(AbsPath(top), fsDirs, rev)
    IN  [k \in 1..Len(files) |-> [root |-> top, filename |-> files[k]]]
        \o WalkDirs(top, dirs, rev)
WalkDirs(top, dirs, rev) ==
    IF dirs = <<>> THEN <<>>
    ELSE WalkFiles(Append(top, Head(dirs)), rev) \o WalkDirs(top, Tail(dirs), rev)

\* The order of a directory listing is the file system's: either order.
WalkOrders(top) == { WalkFiles(top, FALSE), WalkFiles(top, TRUE) }

\* exit statuses of the external programs
RetCodes == {0, 1}

\* What imapgrab.py leaves under the directory it is given: the folders of
\* the mailbox when it succeeds, some of them when it fails.
GrabFiles(dir, rc) ==
    IF rc = 0
    THEN { Append(dir, S_INBOX_mbox), dir \o <<S_INBOX, S_Sent_mbox>>,
           Append(dir, S_mbox) }
    ELSE { Append(dir, S_INBOX_mbox) }
GrabDirs(dir, rc) == IF rc = 0 THEN { Append(dir, S_INBOX) } ELSE {}

\* file systems the run starts on: no backup directory; a backup
\* directory holding alice_at_; one holding alice, and b_at_x with no
\* backup-format file in it
BackupsDir == AbsPath(<<S_backups>>)
FsNone == [dirs |-> {Cwd}, files |-> {}]
FsTree(user) ==
    LET d == Append(BackupsDir, user)
    IN  [dirs |-> {Cwd, BackupsDir, d, Append(d, S_INBOX)},
         files |-> { Append(d, S_INBOX_mbox), d \o <<S_INBOX, S_Sent_mbox>> }]
FsTreeAndBare(user, bare) ==
    [dirs |-> FsTree(user).dirs \cup {Append(BackupsDir, bare)},
     files |-> FsTree(user).files \cup {BackupsDir \o <<bare, S_mbox>>}]
InitialFs == { FsNone, FsTree(S_alice_at_), FsTreeAndBare(S_alice, S_b_at_x) }

----------------------------------------------------------------------------
(* main, list_mailboxes, backup_mailboxes, restore_mailboxes. *)

R_alice ==
    Row(S_alice, S_pw1, S_oldhost, EmptyStr, S_true,
        S_alice, S_pw2, S_newhost, EmptyStr, S_true)
R_bob ==
    Row(S_bob_at_x, S_pw1, S_oldhost, S_143, S_False,
        S_bob_at_x, S_pw2, S_newhost, EmptyStr, S_false)
\* no destination username: not configured for restore
R_carl ==
    Row(S_carl, S_pw1, S_oldhost, EmptyStr, S_true,
        EmptyStr, EmptyStr, S_newhost, EmptyStr, S_true)
\* no destination host
R_alice_nohost ==
    Row(S_alice, S_pw1, S_oldhost, EmptyStr, S_true,
        S_alice, S_pw2, EmptyStr, EmptyStr, S_true)

RunRowSet == { R_alice, R_bob, R_carl, R_alice_nohost }
RunFilters == { <<S_all>>, <<S_bob_at_x, S_alice>> }

Operations == <<"listold", "listnew", "backup", "restore">>

Requested(a, op) ==
    CASE op = "listold" -> a.listold
      [] op = "listnew" -> a.listnew
      [] op = "backup" -> a.backup
      [] op = "restore" -> a.restore

\* the position of an operation in main; 0 is before the first
OpIndex(p) == IF p = "start" THEN 0 ELSE CHOOSE k \in 1..4 : Operations[k] = p

\* NextOp with a fault: backup and restore exchanged.
NextOpRestoreFirst(p, a) ==
    LET order == <<"listold", "listnew", "restore", "backup">>
        at == IF p = "start" THEN 0 ELSE CHOOSE k \in 1..4 : order[k] = p
        later == { k \in (at + 1)..4 : Requested(a, order[k]) }
    IN  IF later = {} THEN "done"
        ELSE order[CHOOSE k \in later : \A j \in later : k <= j]

\* main: the next "if args.<op>" that holds after position p
NextOp(p, a) ==
    LET later == { k \in (OpIndex(p) + 1)..4 : Requested(a, Operations[k]) }
    IN  IF later = {} THEN "done"
        ELSE Operations[CHOOSE k \in later : \A j \in later : k <= j]

\* CsvOpens with a fault: the PermissionError is swallowed.
CsvOpensUnlessMissing(csv) == csv # "missing"

\* parse_mailboxes_csv: open() raises neither FileNotFoundError nor
\* PermissionError
CsvOpens(csv) == csv = "ok"

RunInit ==
    /\ pc = "start"
    /\ \E csv \in {"ok", "missing", "denied"}, lo, ln, b, r \in BOOLEAN,
          f \in RunFilters :
          args = Args(csv, lo, ln, b, r, f)
    /\ csvRows \in SeqsUpTo(RunRowSet, MaxRows)
    /\ args.csv # "ok" => csvRows = <<>>
    /\ \E fs \in InitialFs : fsDirs = fs.dirs /\ fsFiles = fs.files
    /\ migrations = <<>>
    /\ i = 0 /\ walk = <<>> /\ allOk = TRUE /\ acc = <<>> /\ success = <<>>
    /\ calls = <<>> /\ pairLog = <<>> /\ opsRun = <<>> /\ exitStatus = -1
    /\ IdleCmd

\* main going on to operation next (or to its return) with the list input:
\* the operation's locals are set up; backup_mailboxes first makes the
\* output directory. main's "success" was given to logger.debug when the
\* operation before returned and is not read again: it is forgotten here.
Enter(next, input, done) ==
    /\ pc' = next
    /\ success' = IF next = "done" THEN success ELSE <<>>
    /\ i' = 1 /\ acc' = <<>> /\ calls' = <<>> /\ pairLog' = <<>>
    /\ walk' = <<>> /\ allOk' = TRUE
    /\ opsRun' = IF next = "done" THEN done
                 ELSE Append(done, [op |-> next, input |-> input,
                                    finished |-> FALSE, ncalls |-> 0])
    /\ exitStatus' = IF next = "done" THEN 0 ELSE -1
    /\ fsDirs' = IF next = "backup"
                 THEN fsDirs \cup {AbsPath(args.output)} ELSE fsDirs

\* main up to the first operation: parse_mailboxes_csv, which exits with
\* status 1 when the file cannot be opened
Load ==
    /\ pc = "start"
    /\ IF CsvOpens(args.csv)
       THEN /\ migrations' = ParseRows(csvRows, args.mailboxes)
            /\ Enter(NextOp("start", args), migrations', opsRun)
            /\ UNCHANGED <<args, csvRows, fsFiles, mbox, logged>>
       ELSE /\ pc' = "exit"
            /\ exitStatus' = 1
            /\ UNCHANGED <<args, csvRows, migrations, fsDirs, fsFiles, i, walk,
                           allOk, acc, success, calls, pairLog, opsRun, mbox,
                           logged>>

\* the parameter "migrations" of the running operation
Input == opsRun[Len(opsRun)].input

\* LoopDone with a fault: the operation returns after the first mailbox.
LoopDoneAfterFirst(k, n) == k > 1 \/ k > n

\* "for ... in migrations" has run out
LoopDone(k, n) == k > n

\* "if return_code == 0: success.append(...)"
Accumulate(lst, item, rc) == IF rc = 0 THEN Append(lst, item) ELSE lst

\* list_mailboxes: the loop body for the mailbox at i
ListStep ==
    /\ pc \in {"listold", "listnew"}
    /\ ~LoopDone(i, Len(Input))
    /\ LET mailbox == GetAttr(Input[i], IF pc = "listold" THEN "old" ELSE "new")
       IN  \E rc \in RetCodes :
             /\ calls' = Append(calls, [op |-> "list", mailbox |-> mailbox,
                                        rc |-> rc])
             /\ acc' = Accumulate(acc, mailbox, rc)
    /\ i' = i + 1
    /\ UNCHANGED <<pc, args, csvRows, migrations, fsDirs, fsFiles, walk, allOk,
                   success, pairLog, opsRun, exitStatus, mbox, logged>>

\* backup_mailboxes: the loop body for the mailbox at i. os.mkdir adds the
\* per-user directory unless it exists; imapgrab.py then writes into it.
BackupStep ==
    /\ pc = "backup"
    /\ ~LoopDone(i, Len(Input))
    /\ LET mailbox == Input[i].old
           user_output_dir == BackupUserDir(args.output, mailbox.username)
       IN  \E rc \in RetCodes :
             /\ fsDirs' = fsDirs \cup {user_output_dir}
                                 \cup GrabDirs(user_output_dir, rc)
             /\ fsFiles' = fsFiles \cup GrabFiles(user_output_dir, rc)
             /\ calls' = Append(calls, [op |-> "backup", mailbox |-> mailbox,
                                        dir |-> user_output_dir, rc |-> rc])
             /\ acc' = Accumulate(acc, mailbox, rc)
    /\ i' = i + 1
    /\ UNCHANGED <<pc, args, csvRows, migrations, walk, allOk, success,
                   pairLog, opsRun, exitStatus, mbox, logged>>

\* "if not migration.new.username or not migration.new.host: continue"
Configured(mailbox) == Truthy(mailbox.username) /\ Truthy(mailbox.host)

\* IsBackupFile with a fault: the dot of the suffix is forgotten.
IsBackupFileNoDot(filename) == EndsWith(filename, S_mbox)

\* filename.endswith(".mbox")
IsBackupFile(filename) == EndsWith(filename, S_dot_mbox)

\* UpdateAllOk with a fault: the last status decides.
UpdateAllOkLast(ok, rc) == rc = 0

\* "if return_code != 0: return_codes_all_ok = False"
UpdateAllOk(ok, rc) == IF rc # 0 THEN FALSE ELSE ok

\* what the log of a pair keeps: how the pair was left, how many uploads
\* were issued for it, what they were, and how many of them returned a
\* nonzero status
PairEntry(outcome, uploads) ==
    [outcome |-> outcome,
     n |-> Len(uploads),
     uploads |-> { [box |-> uploads[k].box, file |-> uploads[k].file,
                    mailbox |-> uploads[k].mailbox] : k \in 1..Len(uploads) },
     failed |-> Cardinality({k \in 1..Len(uploads) : uploads[k].rc # 0})]

\* restore_mailboxes: the head of the loop body for the pair at i, up to
\* the start of os.walk
RestoreBegin ==
    /\ pc = "restore"
    /\ ~LoopDone(i, Len(Input))
    /\ LET migration == Input[i]
           user_backup_dir == RestoreUserDir(args.output, migration.old.username)
       IN  IF ~Configured(migration.new)
           THEN /\ pairLog' = Append(pairLog, PairEntry("unconfigured", <<>>))
                /\ i' = i + 1
                /\ UNCHANGED <<pc, walk, allOk>>
           ELSE IF ~Exists(user_backup_dir)
           THEN /\ pairLog' = Append(pairLog, PairEntry("nodir", <<>>))
                /\ i' = i + 1
                /\ UNCHANGED <<pc, walk, allOk>>
           ELSE /\ walk' \in WalkOrders(user_backup_dir)
                /\ allOk' = TRUE
                /\ pc' = "restore_walk"
                /\ UNCHANGED <<pairLog, i>>
    /\ calls' = <<>>
    /\ UNCHANGED <<args, csvRows, migrations, fsDirs, fsFiles, acc, success,
                   opsRun, exitStatus, mbox, logged>>

\* restore_mailboxes: the inner loop body for the next file os.walk yields
RestoreFile ==
    /\ pc = "restore_walk"
    /\ walk # <<>>
    /\ LET migration == Input[i]
           user_backup_dir == RestoreUserDir(args.output, migration.old.username)
           f == Head(walk)
           box_file_relpath == Append(f.root, f.filename)
       IN  IF IsBackupFile(f.filename)
           THEN \E rc \in RetCodes :
                  /\ calls' = Append(calls,
                        [op |-> "upload", mailbox |-> migration.new,
                         box |-> BoxImapPath(box_file_relpath, user_backup_dir),
                         file |-> AbsPath(box_file_relpath), rc |-> rc])
                  /\ allOk' = UpdateAllOk(allOk, rc)
           ELSE UNCHANGED <<calls, allOk>>
    /\ walk' = Tail(walk)
    /\ UNCHANGED <<pc, args, csvRows, migrations, fsDirs, fsFiles, i, acc,
                   success, pairLog, opsRun, exitStatus, mbox, logged>>

\* restore_mailboxes: after os.walk, "if return_codes_all_ok: ..."
RestorePairEnd ==
    /\ pc = "restore_walk"
    /\ walk = <<>>
    /\ acc' = IF allOk THEN Append(acc, Input[i]) ELSE acc
    /\ pairLog' = Append(pairLog, PairEntry("walked", calls))
    /\ i' = i + 1
    /\ pc' = "restore"
    /\ UNCHANGED <<args, csvRows, migrations, fsDirs, fsFiles, walk, allOk,
                   success, calls, opsRun, exitStatus, mbox, logged>>

RECURSIVE CountUploads(_)
CountUploads(log) ==
    IF log = <<>> THEN 0 ELSE Head(log).n + CountUploads(Tail(log))

\* "return success", and main's "success = ..."
Return ==
    /\ pc \in {"listold", "listnew", "backup", "restore"}
    /\ LoopDone(i, Len(Input))
    /\ success' = acc
    /\ opsRun' = [opsRun EXCEPT ![Len(opsRun)] =
                    [@ EXCEPT !.finished = TRUE,
                              !.ncalls = IF pc = "restore"
                                         THEN CountUploads(pairLog)
                                         ELSE Len(calls)]]
    /\ pc' = "returned"
    /\ UNCHANGED <<args, csvRows, migrations, fsDirs, fsFiles, i, walk, allOk,
                   acc, calls, pairLog, exitStatus, mbox, logged>>

\* main after an operation: on to the next requested one, or "return 0"
Continue ==
    /\ pc = "returned"
    /\ Enter(NextOp(opsRun[Len(opsRun)].op, args), migrations, opsRun)
    /\ UNCHANGED <<args, csvRows, migrations, fsFiles, mbox, logged>>

RunNext ==
    \/ Load
    \/ ListStep
    \/ BackupStep
    \/ RestoreBegin
    \/ RestoreFile
    \/ RestorePairEnd
    \/ Return
    \/ Continue

Spec == RunInit /\ [][RunNext]_vars

----------------------------------------------------------------------------
(* What the claims speak of. *)

\* the operation that runs or has just returned
LastOp == IF opsRun = <<>> THEN "none" ELSE opsRun[Len(opsRun)].op

\* the elements of s at the indices in K, in order
PickIndices(s, K) ==
    LET idx == SelectSeq([k \in 1..Len(s) |-> k], LAMBDA k : k \in K)
    IN  [j \in 1..Len(idx) |-> s[idx[j]]]

\* v equals "false" case-insensitively
IsFalseAnyCase(v) ==
    /\ v # NoneVal
    /\ Len(v) = 5
    /\ \A k \in 1..5 : v[k] \in {S_false[k], S_FALSE[k]}

\* the security flag and the port a descriptor is to have
SecurityOf(flagField) == ~IsFalseAnyCase(flagField)
PortOf(portField, flagField) ==
    IF portField \in {EmptyStr, NoneVal}
    THEN (IF SecurityOf(flagField) THEN S_993 ELSE S_143)
    ELSE portField

\* the pair a row is to give
PairOf(row) ==
    [old |-> [type |-> "old", username |-> row.old_username,
              password |-> row.old_pass, host |-> row.old_host,
              port |-> PortOf(row.old_port, row.old_ssl),
              use_ssl |-> SecurityOf(row.old_ssl)],
     new |-> [type |-> "new", username |-> row.new_username,
              password |-> row.new_pass, host |-> row.new_host,
              port |-> PortOf(row.new_port, row.new_ssl),
              use_ssl |-> SecurityOf(row.new_ssl)]]

\* the rows a filter retains
RetainedRows(rows, filter) ==
    SelectSeq(rows, LAMBDA r : filter = <<S_all>>
                               \/ \E k \in 1..Len(filter) : filter[k] = r.old_username)

\* the migration set the loader is to produce
ExpectedMigrations(rows, filter) ==
    LET kept == RetainedRows(rows, filter)
    IN  [k \in 1..Len(kept) |-> PairOf(kept[k])]

\* the per-user backup directory of a source username, as an absolute path
UserDirOf(username) == Cwd \o args.output \o <<ReplaceAt(username)>>

\* pair k has a destination username and host, and its directory exists
HasDestination(k) ==
    /\ migrations[k].new.username \notin {EmptyStr, NoneVal}
    /\ migrations[k].new.host \notin {EmptyStr, NoneVal}
HasBackupDir(k) == UserDirOf(migrations[k].old.username) \in fsDirs
Eligible(k) == HasDestination(k) /\ HasBackupDir(k)

IsPrefix(p, q) == Len(p) <= Len(q) /\ SubSeq(q, 1, Len(p)) = p

\* the backup-format files under a directory
BackupFilesUnder(dir) ==
    { f \in fsFiles : IsPrefix(dir, f) /\ Len(f) > Len(dir)
                      /\ EndsWith(f[Len(f)], S_dot_mbox) }

RestoreReturned == pc = "returned" /\ LastOp = "restore"

\* C1: restore_mailboxes returns, in input order, exactly the pairs that
\* have a destination username and host, whose per-user backup directory
\* exists, and none of whose uploads returned a nonzero status.
C1_RestoreResult ==
    RestoreReturned =>
      /\ Len(pairLog) = Len(migrations)
      /\ success = PickIndices(migrations,
                     { k \in 1..Len(migrations) :
                         Eligible(k) /\ pairLog[k].failed = 0 })

\* a pair with a failed upload among two is left out, the next pair is in
C1_Witness ==
    /\ RestoreReturned
    /\ Len(migrations) = 2
    /\ pairLog[1].n = 2 /\ pairLog[1].failed = 1
    /\ pairLog[2].n = 2 /\ pairLog[2].failed = 0
    /\ success = <<migrations[2]>>

\* C2: whatever the exit statuses, restore_mailboxes issues exactly one
\* upload for every backup-format file under the directory of every pair
\* that has a destination and a backup directory, pair after pair in input
\* order, and none for any other pair.
C2_UploadsIssued ==
    /\ pc = "restore_walk" => Eligible(i)
    /\ RestoreReturned =>
         /\ Len(pairLog) = Len(migrations)
         /\ \A k \in 1..Len(migrations) :
              LET ups == pairLog[k].uploads
                  want == IF Eligible(k)
                          THEN BackupFilesUnder(UserDirOf(migrations[k].old.username))
                          ELSE {}
              IN  /\ pairLog[k].n = Cardinality(want)
                  /\ { u.file : u \in ups } = want
                  /\ \A u \in ups : u.mailbox = migrations[k].new

\* both uploads of the first pair failed, and the second pair's files were
\* uploaded all the same
C2_Witness ==
    /\ RestoreReturned
    /\ Len(migrations) = 2
    /\ pairLog[1].n = 2 /\ pairLog[1].failed = 2
    /\ pairLog[2].n = 2

ListOrBackupReturned ==
    pc = "returned" /\ LastOp \in {"listold", "listnew", "backup"}

\* C3: list_mailboxes and backup_mailboxes issue exactly one invocation per
\* pair, in input order, through the whole list, and return the selected
\* descriptors whose invocation returned zero, in order.
C3_OnePerPair ==
    ListOrBackupReturned =>
      LET type_ == IF LastOp = "listnew" THEN "new" ELSE "old"
      IN  /\ Len(calls) = Len(migrations)
          /\ \A k \in 1..Len(calls) :
               calls[k].mailbox = GetAttr(migrations[k], type_)
          /\ success = PickIndices([k \in 1..Len(migrations) |->
                                      GetAttr(migrations[k], type_)],
                                   { k \in 1..Len(calls) : calls[k].rc = 0 })

\* the first invocation failed and the second one was made and succeeded
C3_Witness ==
    /\ ListOrBackupReturned
    /\ LastOp = "listnew"
    /\ Len(calls) = 2 /\ calls[1].rc # 0 /\ calls[2].rc = 0
    /\ success = <<migrations[2].new>>

RequestedOps == SelectSeq(Operations, LAMBDA o : Requested(args, o))

\* C5: the requested operations run, each once, in the order list-source,
\* list-destination, backup, restore; one starts when the one before has
\* finished; each is given the loader's complete migration set.
C5_OperationOrder ==
    LET names == [k \in 1..Len(opsRun) |-> opsRun[k].op]
        expected == ExpectedMigrations(csvRows, args.mailboxes)
    IN  /\ Len(names) <= Len(RequestedOps)
        /\ names = SubSeq(RequestedOps, 1, Len(names))
        /\ pc = "done" => names = RequestedOps
        /\ \A k \in 1..Len(opsRun) :
             /\ opsRun[k].input = expected
             /\ k < Len(opsRun) =>
                  /\ opsRun[k].finished
                  /\ opsRun[k].ncalls = Len(opsRun[k].input)

\* all four operations ran on a set the filter had cut down
C5_Witness ==
    /\ pc = "done"
    /\ Len(opsRun) = 4
    /\ Len(csvRows) = 2 /\ Len(migrations) = 1

\* C6: when the CSV file is missing or unreadable the run ends with status
\* 1 before any operation is started and before any directory is made;
\* otherwise no failure of a mailbox or a pair ends it, and it goes on to
\* return 0.
C6_OnlyLoaderIsFatal ==
    /\ args.csv # "ok" =>
         /\ pc \in {"start", "exit"}
         /\ pc = "exit" => exitStatus = 1
         /\ opsRun = <<>> /\ calls = <<>>
         /\ [dirs |-> fsDirs, files |-> fsFiles] \in InitialFs
    /\ args.csv = "ok" =>
         /\ pc # "exit"
         /\ exitStatus \in {-1, 0}
         /\ pc = "done" <=> exitStatus = 0
         /\ pc # "done" => ENABLED RunNext

\* a run asked to back up ends at the loader, the CSV file being unreadable
C6_Witness ==
    /\ args.csv = "denied" /\ args.backup /\ args.restore
    /\ pc = "exit" /\ exitStatus = 1
    /\ fsDirs = {Cwd}

BackupRan == \E k \in 1..Len(opsRun) : opsRun[k].op = "backup"

\* C7: in a run that backs up and then restores, restore finds the
\* per-user directory of every pair: it never skips a pair for a missing
\* backup directory.
C7_RestoreFindsBackupDir ==
    BackupRan => \A k \in 1..Len(pairLog) : pairLog[k].outcome # "nodir"

\* a username with "@", whose directory only the backup of this run made
\* (no file system the run starts on has b_at_x without alice)
C7_Witness ==
    /\ BackupRan /\ RestoreReturned
    /\ Append(BackupsDir, S_alice) \notin fsDirs
    /\ \E k \in 1..Len(pairLog) :
         /\ migrations[k].old.username = S_bob_at_x
         /\ pairLog[k].outcome = "walked"
         /\ pairLog[k].n = 2

\* C8: the loader returns one pair per retained row, in row order and
\* with repeated usernames kept; the filter ["all"] retains every row, any
\* other filter the rows whose source username is in it.
C8_FilteredInOrder ==
    pc = "parsed" => migrations = ExpectedMigrations(csvRows, args.mailboxes)

\* two different rows of the same username, both retained by a filter
\* that names the username
C8_Witness ==
    /\ pc = "parsed"
    /\ args.mailboxes = <<S_bob_at_x, S_alice>>
    /\ Len(csvRows) = 2 /\ csvRows[1] # csvRows[2]
    /\ csvRows[1].old_username = S_alice /\ csvRows[2].old_username = S_alice
    /\ Len(migrations) = 2 /\ migrations[1] # migrations[2]

\* C9: for each side of every row, security is off iff the flag field is
\* "false" in any case, and the port is 993 (security on) or 143 (off)
\* when the port field is empty and the port field otherwise.
C9_FlagsAndPorts ==
    (pc = "parsed" /\ Len(migrations) = Len(csvRows)) =>
      \A k \in 1..Len(csvRows) :
        /\ migrations[k].old.use_ssl = SecurityOf(csvRows[k].old_ssl)
        /\ migrations[k].new.use_ssl = SecurityOf(csvRows[k].new_ssl)
        /\ migrations[k].old.port = PortOf(csvRows[k].old_port, csvRows[k].old_ssl)
        /\ migrations[k].new.port = PortOf(csvRows[k].new_port, csvRows[k].new_ssl)

\* "FALSE" with no port on the source side, "true" with no port on the
\* destination side of the same row
C9_Witness ==
    /\ pc = "parsed" /\ Len(migrations) = Len(csvRows)
    /\ \E k \in 1..Len(csvRows) :
         /\ csvRows[k].old_ssl = S_FALSE /\ csvRows[k].old_port = EmptyStr
         /\ csvRows[k].new_ssl = S_true /\ csvRows[k].new_port = EmptyStr
         /\ migrations[k].old.port = S_143 /\ ~migrations[k].old.use_ssl
         /\ migrations[k].new.port = S_993 /\ migrations[k].new.use_ssl

\* restore has returned in a run on the single row of alice with the filter
\* ["all"], the backup-format files under <backups>/dirname being
\* INBOX/Sent.mbox and INBOX.mbox
AliceScenario(dirname) ==
    /\ RestoreReturned
    /\ csvRows = <<R_alice>> /\ args.mailboxes = <<S_all>>
    /\ BackupFilesUnder(Append(BackupsDir, dirname))
         = { BackupsDir \o <<dirname, S_INBOX, S_Sent_mbox>>,
             BackupsDir \o <<dirname, S_INBOX_mbox>> }

\* two uploads, one to INBOX/Sent and one to INBOX
TwoAliceUploads ==
    /\ CountUploads(pairLog) = 2
    /\ \E a, b \in pairLog[1].uploads :
         /\ a.box = S_INBOX_Sent /\ a.file[Len(a.file)] = S_Sent_mbox
         /\ b.box = S_INBOX /\ b.file[Len(b.file)] = S_INBOX_mbox

\* C10 as stated: with the files under alice_at_, restore issues the two
\* uploads.
C10_AliceAtUploads == AliceScenario(S_alice_at_) => TwoAliceUploads

\* C10, amended: with the files under alice, the per-user directory of the
\* username "alice", restore issues the two uploads, to INBOX/Sent and to
\* INBOX.
C10_AliceUploads == AliceScenario(S_alice) => TwoAliceUploads

\* a run that only restores, from the files under alice
C10_Witness ==
    /\ AliceScenario(S_alice) /\ ~args.backup
    /\ pairLog[1].n = 2

====
